---- MODULE Spec2Model ----
(***************************************************************************)
(* ONNX inference form (code2mech/App).  Three variants of one Streamlit   *)
(* page: APP (Conjuagation_APP.py), GUI (GUI_Conjuagation.py) and V2       *)
(* (Conjuagation_APP_V2.py).  One form submission = one load/infer cycle:  *)
(* temporary model file, InferenceSession, input binding, session.run,     *)
(* cleanup, display.  Each cycle is a process with a program counter; the  *)
(* temporary-file directory is the only state shared between cycles.       *)
(***************************************************************************)
EXTENDS Integers, Sequences, FiniteSets, TLC

\* ---- bounds of the model ----
MaxInputs == 2
MaxOutputs == 2
MaxOutLen == 6
MaxCycles == 2
MaxFiles == 2

\* ---- program constants ----
NumLabels == 5
MantissaBits == 24
DirectShowLimit == 10

OUTPUT_LABELS == <<"Shear Rate", "Power", "Tip Speed", "Reynolds Number", "Power Number">>

Variants == {"APP", "GUI", "V2"}
Procs == {1, 2}
FileNames == 1..MaxFiles
Unbound == 0

VARIABLES
    variant,      \* which page is deployed
    procs,        \* the submissions that may run (one, or two interleaved)
    fs,           \* names of the temporary files that exist
    pc,           \* position of each cycle
    cycle,        \* number of submissions each process has started
    inp,          \* the submitted form: volume, impeller_speed, model file
    created,      \* the temporary file this cycle created (Unbound: none)
    model_path,   \* the local model_path (Unbound: not in locals())
    session,      \* the InferenceSession, once constructed
    sessionCalls, \* calls of ort.InferenceSession in this cycle
    input_dict,   \* the input binding
    runLog,       \* the calls of session.run in this cycle
    outputs,      \* what session.run returned
    exc,          \* the exception in flight ("none": none)
    raised,       \* the stages that raised in this cycle
    result,       \* the value run_inference returned
    ui,           \* what main rendered
    unhandled,    \* the exception that left main ("none": none)
    removedOther, \* a cleanup removed the file another cycle was about to load
    previous      \* how the preceding cycle of each process ended ("none": first cycle)

vars == <<variant, procs, fs, pc, cycle, inp, created, model_path, session,
          sessionCalls, input_dict, runLog, outputs, exc, raised, result, ui,
          unhandled, removedOther, previous>>

\* ---- numeric arrays ----

RECURSIVE Ulp(_)
\* spacing of the float32 values around the magnitude a
Ulp(a) == IF a < 2^MantissaBits THEN 1 ELSE 2 * Ulp(a \div 2)

\* np.float32 of an integer-valued double: round to nearest, ties to even
Float32(x) ==
    LET a == IF x < 0 THEN -x ELSE x
        u == Ulp(a)
        q == a \div u
        r == a % u
        n == IF 2 * r < u THEN q
             ELSE IF 2 * r > u THEN q + 1
             ELSE IF q % 2 = 0 THEN q ELSE q + 1
    IN  IF x < 0 THEN -(n * u) ELSE n * u

\* np.array(values, dtype=np.float32)
Array1D(values) ==
    [shape |-> <<Len(values)>>, data |-> [i \in 1..Len(values) |-> Float32(values[i])]]

\* np.array([values], dtype=np.float32)
Array2D(values) ==
    [shape |-> <<1, Len(values)>>, data |-> [i \in 1..Len(values) |-> Float32(values[i])]]

\* ndarray.flatten()
Flatten(a) == [shape |-> <<Len(a.data)>>, data |-> a.data]

\* ---- model files ----

Shapes == {<< >>, <<2>>, <<1, 2>>, <<2, 2, 2>>}

InvalidModel == [valid |-> FALSE, inputs |-> << >>, outputs |-> << >>]

ValidModel(shapes, m) ==
    [valid |-> TRUE,
     inputs |-> [i \in 1..Len(shapes) |-> [name |-> <<"in", i>>, shape |-> shapes[i]]],
     outputs |-> [j \in 1..m |-> [name |-> <<"out", j>>]]]

AllModels ==
    {InvalidModel} \cup
    UNION {{ValidModel(f, m) : f \in [1..n -> Shapes]} : n \in 0..MaxInputs, m \in 0..MaxOutputs}

ConcModels ==
    {InvalidModel, ValidModel(<< <<1, 2>> >>, 1), ValidModel(<< <<2, 2, 2>> >>, 1)}

Interleaved == Cardinality(procs) > 1

Models == IF Interleaved THEN ConcModels ELSE AllModels
Volumes == IF Interleaved THEN {1} ELSE {1, 2^MantissaBits + 1}
Speeds == IF Interleaved THEN {1} ELSE {100}
OutLens == IF Interleaved THEN {NumLabels} ELSE 0..MaxOutLen
CycleLimit == IF Interleaved THEN 1 ELSE MaxCycles

\* ---- values of the locals ----

NoSession == [loaded |-> FALSE, inputs |-> << >>, outputs |-> << >>]
EmptyDict == << >>
Pending == [status |-> "pending", error |-> [kind |-> "none", shape |-> << >>, msg |-> "none"],
            names |-> << >>, outputs |-> << >>]
NoUi == [kind |-> "none", lines |-> << >>, values |-> << >>, reads |-> {}, csv |-> << >>,
         msg |-> "none"]
NoInput == [volume |-> 0, impeller_speed |-> 0, model |-> InvalidModel]

InitWith(P) ==
    /\ variant \in Variants
    /\ procs = P
    /\ fs = {}
    /\ pc = [p \in Procs |-> "idle"]
    /\ cycle = [p \in Procs |-> 0]
    /\ inp = [p \in Procs |-> NoInput]
    /\ created = [p \in Procs |-> Unbound]
    /\ model_path = [p \in Procs |-> Unbound]
    /\ session = [p \in Procs |-> NoSession]
    /\ sessionCalls = [p \in Procs |-> 0]
    /\ input_dict = [p \in Procs |-> EmptyDict]
    /\ runLog = [p \in Procs |-> << >>]
    /\ outputs = [p \in Procs |-> << >>]
    /\ exc = [p \in Procs |-> "none"]
    /\ raised = [p \in Procs |-> {}]
    /\ result = [p \in Procs |-> Pending]
    /\ ui = [p \in Procs |-> NoUi]
    /\ unhandled = [p \in Procs |-> "none"]
    /\ removedOther = FALSE
    /\ previous = [p \in Procs |-> "none"]

Init == InitWith({1})
InitConc == InitWith(Procs)

\* how a finished cycle ended, as the UI saw it
Outcome(p) == IF unhandled[p] # "none" THEN "crash" ELSE result[p].status

\* "Run Inference" pressed: the script runs again, main starts with fresh locals
Submit(p) ==
    /\ p \in procs
    /\ pc[p] \in {"idle", "done"}
    /\ cycle[p] < CycleLimit
    /\ inp' = [inp EXCEPT ![p] = NoInput]
    /\ cycle' = [cycle EXCEPT ![p] = @ + 1]
    /\ pc' = [pc EXCEPT ![p] = "form"]
    /\ created' = [created EXCEPT ![p] = Unbound]
    /\ model_path' = [model_path EXCEPT ![p] = Unbound]
    /\ session' = [session EXCEPT ![p] = NoSession]
    /\ sessionCalls' = [sessionCalls EXCEPT ![p] = 0]
    /\ input_dict' = [input_dict EXCEPT ![p] = EmptyDict]
    /\ runLog' = [runLog EXCEPT ![p] = << >>]
    /\ outputs' = [outputs EXCEPT ![p] = << >>]
    /\ exc' = [exc EXCEPT ![p] = "none"]
    /\ raised' = [raised EXCEPT ![p] = {}]
    /\ result' = [result EXCEPT ![p] = Pending]
    /\ ui' = [ui EXCEPT ![p] = NoUi]
    /\ unhandled' = [unhandled EXCEPT ![p] = "none"]
    /\ previous' = [previous EXCEPT ![p] = IF pc[p] = "done" THEN Outcome(p) ELSE @]
    /\ UNCHANGED <<variant, procs, fs, removedOther>>

\* main reads the widgets: the model file, volume and impeller_speed
ReadForm(p) ==
    /\ pc[p] = "form"
    /\ \E v \in Volumes, s \in Speeds, m \in Models :
         inp' = [inp EXCEPT ![p] = [volume |-> v, impeller_speed |-> s, model |-> m]]
    /\ pc' = [pc EXCEPT ![p] = IF variant = "V2" THEN "download" ELSE "tmpfile"]
    /\ UNCHANGED <<variant, procs, fs, cycle, created, model_path, session, sessionCalls,
                   input_dict, runLog, outputs, exc, raised, result, ui, unhandled,
                   removedOther, previous>>

\* ---- the temporary file ----

\* tempfile.NamedTemporaryFile: the names mkstemp (O_EXCL) can still create
TempNames(files) == FileNames \ files

\* os.unlink / os.remove of file n by cycle p, when it succeeds
Removed(p, n) ==
    /\ fs' = fs \ {n}
    /\ removedOther' = (removedOther \/
                        \E q \in Procs \ {p} :
                            model_path[q] = n /\ pc[q] = "session")

Raise(p, stage, target) ==
    /\ exc' = [exc EXCEPT ![p] = stage]
    /\ raised' = [raised EXCEPT ![p] = @ \cup {stage}]
    /\ pc' = [pc EXCEPT ![p] = target]

\* APP/GUI run_inference: with NamedTemporaryFile(...) as tmp_file: write; model_path = name
WriteTempFile(p) ==
    /\ pc[p] = "tmpfile"
    /\ \/ /\ Raise(p, "io", "except")
          /\ UNCHANGED <<fs, created, model_path>>
       \/ \E n \in TempNames(fs) :
            /\ fs' = fs \cup {n}
            /\ created' = [created EXCEPT ![p] = n]
            /\ \/ /\ model_path' = [model_path EXCEPT ![p] = n]
                  /\ pc' = [pc EXCEPT ![p] = "session"]
                  /\ UNCHANGED <<exc, raised>>
               \/ /\ Raise(p, "io", "except")
                  /\ UNCHANGED model_path
    /\ UNCHANGED <<variant, procs, cycle, inp, session, sessionCalls, input_dict,
                   runLog, outputs, result, ui, unhandled, removedOther, previous>>

\* V2 main: model_path = download_model_from_github(selected_model_url)
DownloadModel(p) ==
    /\ pc[p] = "download"
    /\ \/ /\ Raise(p, "download", "finally")
          /\ UNCHANGED <<fs, created, model_path>>
       \/ /\ Raise(p, "io", "finally")
          /\ UNCHANGED <<fs, created, model_path>>
       \/ \E n \in TempNames(fs) :
            /\ fs' = fs \cup {n}
            /\ created' = [created EXCEPT ![p] = n]
            /\ \/ /\ model_path' = [model_path EXCEPT ![p] = n]
                  /\ pc' = [pc EXCEPT ![p] = "session"]
                  /\ UNCHANGED <<exc, raised>>
               \/ /\ Raise(p, "io", "finally")
                  /\ UNCHANGED model_path
    /\ UNCHANGED <<variant, procs, cycle, inp, session, sessionCalls, input_dict,
                   runLog, outputs, result, ui, unhandled, removedOther, previous>>

\* ---- the session ----

\* session = ort.InferenceSession(model_path)
CreateSession(p) ==
    /\ pc[p] = "session"
    /\ sessionCalls' = [sessionCalls EXCEPT ![p] = @ + 1]
    /\ IF inp[p].model.valid /\ model_path[p] \in fs
       THEN /\ session' = [session EXCEPT ![p] =
                             [loaded |-> TRUE, inputs |-> inp[p].model.inputs,
                              outputs |-> inp[p].model.outputs]]
            /\ pc' = [pc EXCEPT ![p] = "inputs"]
            /\ UNCHANGED <<exc, raised>>
       ELSE /\ Raise(p, "load", "except")
            /\ UNCHANGED session
    /\ UNCHANGED <<variant, procs, fs, cycle, inp, created, model_path, input_dict,
                   runLog, outputs, result, ui, unhandled, removedOther, previous>>

\* ---- the input binding ----

Names(args) == [i \in 1..Len(args) |-> args[i].name]

Supported(shape) == Len(shape) = 1 \/ Len(shape) = 2

\* index of the first declared input the loop returns on, 0 if none
FirstUnsupported(inputs) ==
    LET bad == {i \in 1..Len(inputs) : ~Supported(inputs[i].shape)}
    IN  IF bad = {} THEN 0 ELSE CHOOSE i \in bad : \A j \in bad : i <= j

\* input_data for one declared input of a supported shape
InputData(shape, volume, impeller_speed) ==
    IF Len(shape) = 1 THEN Array1D(<<volume, impeller_speed>>)
    ELSE Array2D(<<volume, impeller_speed>>)

\* a loop that stops after the first declared input
InputDict_first_only(inputs, k, volume, impeller_speed) ==
    [nm \in {inputs[i].name : i \in 1..(IF k > 1 THEN 1 ELSE k)} |->
        InputData(inputs[1].shape, volume, impeller_speed)]

\* input_dict after the loop has passed the first k declared inputs
InputDict(inputs, k, volume, impeller_speed) ==
    [nm \in {inputs[i].name : i \in 1..k} |->
        LET i == CHOOSE j \in 1..k : inputs[j].name = nm /\
                     \A l \in 1..k : inputs[l].name = nm => l <= j
        IN  InputData(inputs[i].shape, volume, impeller_speed)]

\* input_dict = {input_names[0]: np.array([[volume, impeller_speed]])}
InputDictV2(input_names, volume, impeller_speed) ==
    [nm \in {input_names[1]} |-> Array2D(<<volume, impeller_speed>>)]

Failure(kind, shape, msg) ==
    [status |-> "fail", error |-> [kind |-> kind, shape |-> shape, msg |-> msg],
     names |-> << >>, outputs |-> << >>]

\* APP/GUI run_inference: the loop over session.get_inputs()
BuildInputs(p) ==
    /\ pc[p] = "inputs"
    /\ variant \in {"APP", "GUI"}
    /\ LET inputs == session[p].inputs
           bad == FirstUnsupported(inputs)
       IN  IF bad = 0
           THEN /\ input_dict' = [input_dict EXCEPT ![p] =
                     InputDict(inputs, Len(inputs), inp[p].volume, inp[p].impeller_speed)]
                /\ pc' = [pc EXCEPT ![p] = "run"]
                /\ UNCHANGED result
           ELSE /\ input_dict' = [input_dict EXCEPT ![p] =
                     InputDict(inputs, bad - 1, inp[p].volume, inp[p].impeller_speed)]
                /\ result' = [result EXCEPT ![p] =
                     Failure("UnsupportedShape", inputs[bad].shape, "shape")]
                /\ pc' = [pc EXCEPT ![p] = "returned"]
    /\ UNCHANGED <<variant, procs, fs, cycle, inp, created, model_path, session,
                   sessionCalls, runLog, outputs, exc, raised, ui, unhandled,
                   removedOther, previous>>

\* V2 run_inference: input_names[0] bound to the 2-D array
BuildInputsV2(p) ==
    /\ pc[p] = "inputs"
    /\ variant = "V2"
    /\ LET input_names == Names(session[p].inputs)
       IN  IF Len(input_names) = 0
           THEN /\ Raise(p, "index", "except")
                /\ UNCHANGED input_dict
           ELSE /\ input_dict' = [input_dict EXCEPT ![p] =
                     InputDictV2(input_names, inp[p].volume, inp[p].impeller_speed)]
                /\ pc' = [pc EXCEPT ![p] = "run"]
                /\ UNCHANGED <<exc, raised>>
    /\ UNCHANGED <<variant, procs, fs, cycle, inp, created, model_path, session,
                   sessionCalls, runLog, outputs, result, ui, unhandled,
                   removedOther, previous>>

\* ---- session.run ----

StrNames(args) == [i \in 1..Len(args) |-> [kind |-> "str", name |-> args[i].name]]
NodeArgs(args) == [i \in 1..Len(args) |-> [kind |-> "NodeArg", name |-> args[i].name]]

\* the first argument of session.run: a list of names, or None
NameList(args) == [none |-> FALSE, names |-> StrNames(args)]
NoneNames == [none |-> TRUE, names |-> << >>]

\* output_names as run_inference passes them to session.run
RunOutputNames(v, sess) == IF v = "V2" THEN NoneNames ELSE NameList(sess.outputs)

\* the names element of the tuple run_inference returns
ResultNames(v, sess) == IF v = "V2" THEN NodeArgs(sess.outputs) ELSE StrNames(sess.outputs)

\* the outputs the runtime computes: None asks for every declared output
Requested(sess, output_names) ==
    IF output_names.none THEN StrNames(sess.outputs) ELSE output_names.names

\* the runtime's validation of a call: some output requested, every declared
\* input fed, nothing else fed, every array of the declared shape
RuntimeAccepts(sess, output_names, feed) ==
    /\ Len(Requested(sess, output_names)) > 0
    /\ DOMAIN feed = {sess.inputs[i].name : i \in 1..Len(sess.inputs)}
    /\ \A i \in 1..Len(sess.inputs) : feed[sess.inputs[i].name].shape = sess.inputs[i].shape

\* the arrays of a successful run, positionally one per requested output;
\* the first has k elements
RuntimeOutputs(n, k) ==
    [j \in 1..n |-> IF j = 1 THEN [shape |-> <<1, k>>, data |-> [i \in 1..k |-> 10 + i]]
                    ELSE [shape |-> <<1>>, data |-> <<100 * j>>]]

Success(names, outs) ==
    [status |-> "ok", error |-> [kind |-> "none", shape |-> << >>, msg |-> "none"],
     names |-> names, outputs |-> outs]

\* outputs = session.run(output_names, input_dict); V2 returns right after it
RunSession(p) ==
    /\ pc[p] = "run"
    /\ LET names == RunOutputNames(variant, session[p])
       IN  /\ runLog' = [runLog EXCEPT ![p] =
                           Append(@, [output_names |-> names, input_feed |-> input_dict[p]])]
           /\ \/ /\ RuntimeAccepts(session[p], names, input_dict[p])
                 /\ \E k \in OutLens :
                      LET outs == RuntimeOutputs(Len(Requested(session[p], names)), k)
                      IN  /\ outputs' = [outputs EXCEPT ![p] = outs]
                          /\ IF variant = "V2"
                             THEN /\ result' = [result EXCEPT ![p] =
                                        Success(ResultNames(variant, session[p]), outs)]
                                  /\ pc' = [pc EXCEPT ![p] = "returned"]
                             ELSE /\ pc' = [pc EXCEPT ![p] = "unlink"]
                                  /\ UNCHANGED result
                 /\ UNCHANGED <<exc, raised>>
              \/ /\ Raise(p, "run", "except")
                 /\ UNCHANGED <<outputs, result>>
    /\ UNCHANGED <<variant, procs, fs, cycle, inp, created, model_path, session,
                   sessionCalls, input_dict, ui, unhandled, removedOther, previous>>

\* APP/GUI run_inference: os.unlink(model_path); return True, (...)
UnlinkTemp(p) ==
    /\ pc[p] = "unlink"
    /\ \/ /\ model_path[p] \in fs
          /\ Removed(p, model_path[p])
          /\ result' = [result EXCEPT ![p] =
                          Success(ResultNames(variant, session[p]), outputs[p])]
          /\ pc' = [pc EXCEPT ![p] = "returned"]
          /\ UNCHANGED <<exc, raised>>
       \/ /\ Raise(p, "unlink", "except")
          /\ UNCHANGED <<fs, removedOther, result>>
    /\ UNCHANGED <<variant, procs, cycle, inp, created, model_path, session,
                   sessionCalls, input_dict, runLog, outputs, ui, unhandled, previous>>

\* a handler that tries the session again after a failed load
HandleException_retry(p) ==
    /\ pc[p] = "except"
    /\ exc' = [exc EXCEPT ![p] = "none"]
    /\ IF exc[p] = "load" /\ model_path[p] # Unbound
       THEN /\ pc' = [pc EXCEPT ![p] = "session"]
            /\ UNCHANGED result
       ELSE /\ pc' = [pc EXCEPT ![p] = "returned"]
            /\ result' = [result EXCEPT ![p] = Failure("Exception", << >>, exc[p])]
    /\ UNCHANGED <<variant, procs, fs, cycle, inp, created, model_path, session,
                   sessionCalls, input_dict, runLog, outputs, raised, ui, unhandled,
                   removedOther, previous>>

\* except Exception as e: (APP/GUI: unlink model_path if it is bound;) return False, str(e)
HandleException(p) ==
    /\ pc[p] = "except"
    /\ \/ /\ variant \in {"APP", "GUI"}
          /\ model_path[p] # Unbound
          /\ model_path[p] \in fs
          /\ Removed(p, model_path[p])
       \/ UNCHANGED <<fs, removedOther>>
    /\ result' = [result EXCEPT ![p] = Failure("Exception", << >>, exc[p])]
    /\ exc' = [exc EXCEPT ![p] = "none"]
    /\ pc' = [pc EXCEPT ![p] = "returned"]
    /\ UNCHANGED <<variant, procs, cycle, inp, created, model_path, session,
                   sessionCalls, input_dict, runLog, outputs, raised, ui, unhandled,
                   previous>>

\* ---- main: rendering the result ----

Rendered(kind, lines, values, reads, csv, msg) ==
    [kind |-> kind, lines |-> lines, values |-> values, reads |-> reads,
     csv |-> csv, msg |-> msg]

\* an index expression raises IndexError: nothing of the result is rendered
IndexError == [ui |-> Rendered("none", << >>, << >>, {}, << >>, "none"), error |-> TRUE]

Shown(r) == [ui |-> r, error |-> FALSE]

\* the 0-based indices the labelled branch reads
LabelReads == 0..(NumLabels - 1)

\* the labelled lines: label i with output_array[i], i = 0..4
LabelLines(a) == [i \in 1..NumLabels |-> <<OUTPUT_LABELS[i], a.data[i]>>]

\* the labelled branch taken from 3 values on
DisplayAPP_short(res) ==
    IF res.status # "ok" THEN Shown(Rendered("error", << >>, << >>, {}, << >>, res.error.msg))
    ELSE IF Len(res.outputs) = 0 THEN IndexError
    ELSE LET output_array == Flatten(res.outputs[1])
             k == Len(output_array.data)
         IN  IF k >= 3
             THEN IF \E i \in LabelReads : i >= k THEN IndexError
                  ELSE Shown(Rendered("labelled", LabelLines(output_array), << >>,
                                      LabelReads, << >>, "none"))
             ELSE Shown(Rendered("warning", << >>, output_array.data,
                                 0..(k - 1), << >>, "none"))

\* Conjuagation_APP.py main, from "if success:" on
DisplayAPP(res) ==
    IF res.status # "ok" THEN Shown(Rendered("error", << >>, << >>, {}, << >>, res.error.msg))
    ELSE IF Len(res.outputs) = 0 THEN IndexError
    ELSE LET output_array == Flatten(res.outputs[1])
             k == Len(output_array.data)
         IN  IF k >= NumLabels
             THEN Shown(Rendered("labelled", LabelLines(output_array), << >>,
                                 LabelReads, << >>, "none"))
             ELSE Shown(Rendered("warning", << >>, output_array.data,
                                 0..(k - 1), << >>, "none"))

\* Conjuagation_APP_V2.py main, from "if success:" to the download button
DisplayV2(res) ==
    IF res.status # "ok" THEN Shown(Rendered("error", << >>, << >>, {}, << >>, res.error.msg))
    ELSE IF Len(res.outputs) = 0 THEN IndexError
    ELSE LET output_array == Flatten(res.outputs[1])
             k == Len(output_array.data)
         IN  IF k >= NumLabels
             THEN Shown(Rendered("labelled", LabelLines(output_array), << >>,
                                 LabelReads \cup 0..(k - 1), output_array.data, "none"))
             ELSE Shown(Rendered("warning", << >>, output_array.data,
                                 0..(k - 1), output_array.data, "none"))

\* what GUI shows of one output: all of it, or its first 10 values
FirstValues(a) ==
    IF Len(a.data) < DirectShowLimit THEN a.data
    ELSE [i \in 1..DirectShowLimit |-> Flatten(a).data[i]]

\* GUI_Conjuagation.py main, from "if success:" on: every output under its name
DisplayGUI(res) ==
    IF res.status # "ok" THEN Shown(Rendered("error", << >>, << >>, {}, << >>, res.error.msg))
    ELSE IF Len(res.outputs) < Len(res.names) THEN IndexError
    ELSE Shown(Rendered("dump",
                        [i \in 1..Len(res.names) |-> <<res.names[i].name, FirstValues(res.outputs[i])>>],
                        << >>, {}, << >>, "none"))

RenderResult(v, res) ==
    IF v = "APP" THEN DisplayAPP(res)
    ELSE IF v = "GUI" THEN DisplayGUI(res)
    ELSE DisplayV2(res)

\* main after run_inference returned: render; APP/GUI then return to the UI,
\* V2 goes on to its finally block
Display(p) ==
    /\ pc[p] = "returned"
    /\ LET d == RenderResult(variant, result[p])
       IN  /\ ui' = [ui EXCEPT ![p] = d.ui]
           /\ raised' = [raised EXCEPT ![p] = IF d.error THEN @ \cup {"display"} ELSE @]
           /\ IF variant = "V2"
              THEN /\ exc' = [exc EXCEPT ![p] = IF d.error THEN "IndexError" ELSE "none"]
                   /\ pc' = [pc EXCEPT ![p] = "finally"]
                   /\ UNCHANGED unhandled
              ELSE /\ unhandled' = [unhandled EXCEPT ![p] =
                                      IF d.error THEN "IndexError" ELSE "none"]
                   /\ pc' = [pc EXCEPT ![p] = "done"]
                   /\ UNCHANGED exc
    /\ UNCHANGED <<variant, procs, fs, cycle, inp, created, model_path, session,
                   sessionCalls, input_dict, runLog, outputs, result, removedOther,
                   previous>>

\* V2 main: finally: if os.path.exists(model_path): os.remove(model_path)
Finally(p) ==
    /\ pc[p] = "finally"
    /\ \/ /\ model_path[p] = Unbound
          /\ unhandled' = [unhandled EXCEPT ![p] = "UnboundLocalError"]
          /\ raised' = [raised EXCEPT ![p] = @ \cup {"cleanup"}]
          /\ UNCHANGED <<fs, removedOther>>
       \/ /\ model_path[p] # Unbound
          /\ model_path[p] \in fs
          /\ Removed(p, model_path[p])
          /\ unhandled' = [unhandled EXCEPT ![p] = exc[p]]
          /\ UNCHANGED raised
       \/ /\ model_path[p] # Unbound
          /\ model_path[p] \in fs
          /\ unhandled' = [unhandled EXCEPT ![p] = "OSError"]
          /\ raised' = [raised EXCEPT ![p] = @ \cup {"cleanup"}]
          /\ UNCHANGED <<fs, removedOther>>
       \/ /\ model_path[p] # Unbound
          /\ model_path[p] \notin fs
          /\ unhandled' = [unhandled EXCEPT ![p] = exc[p]]
          /\ UNCHANGED <<fs, removedOther, raised>>
    /\ exc' = [exc EXCEPT ![p] = "none"]
    /\ pc' = [pc EXCEPT ![p] = "done"]
    /\ UNCHANGED <<variant, procs, cycle, inp, created, model_path, session,
                   sessionCalls, input_dict, runLog, outputs, result, ui, previous>>

Next ==
    \E p \in Procs :
        \/ Submit(p)
        \/ ReadForm(p)
        \/ WriteTempFile(p)
        \/ DownloadModel(p)
        \/ CreateSession(p)
        \/ BuildInputs(p)
        \/ BuildInputsV2(p)
        \/ RunSession(p)
        \/ UnlinkTemp(p)
        \/ HandleException(p)
        \/ Display(p)
        \/ Finally(p)

Spec == Init /\ [][Next]_vars
SpecConc == InitConc /\ [][Next]_vars

\* ---- properties ----

\* run_inference has returned to main
Returned(p) == pc[p] \in {"returned", "finally", "done"}

\* C1: when control is back at the UI, the temporary file the cycle created
\* no longer exists, whatever path the cycle took.
C1_TempFileGone ==
    \A p \in Procs : pc[p] = "done" /\ created[p] # Unbound => created[p] \notin fs

\* C2: every error raised in a submission (download, temporary file, session,
\* input shaping, execution, cleanup) ends as a tagged failure value, and no
\* exception leaves the submission handler.
C2_ErrorsTagged ==
    \A p \in Procs :
        pc[p] = "done" =>
            /\ unhandled[p] = "none"
            /\ raised[p] \cap {"download", "io", "load", "index", "run", "unlink", "cleanup"} # {}
                  => result[p].status = "fail"

\* C3: if the declared input rank is neither 1 nor 2, session.run is never
\* called in the cycle and run_inference returns the unsupported-shape failure
\* that carries the shape.
C3_UnsupportedFailsFast ==
    \A p \in Procs :
        session[p].loaded /\ Len(session[p].inputs) >= 1
          /\ ~(Len(session[p].inputs[1].shape) \in {1, 2}) =>
            /\ runLog[p] = << >>
            /\ Returned(p) =>
                 /\ result[p].status = "fail"
                 /\ result[p].error.kind = "UnsupportedShape"
                 /\ result[p].error.shape = session[p].inputs[1].shape

\* C4: the array bound to the model input follows the declared rank: rank 1
\* gives the 1-D array [volume, impeller_speed], rank 2 the 2-D array
\* [[volume, impeller_speed]] (elements as float32, volume first), in every variant.
C4_BindingByRank ==
    \A p \in Procs :
        pc[p] \in {"run", "unlink"} /\ Len(session[p].inputs) >= 1 =>
            LET first == session[p].inputs[1]
                data == <<Float32(inp[p].volume), Float32(inp[p].impeller_speed)>>
            IN  /\ first.name \in DOMAIN input_dict[p]
                /\ Len(first.shape) = 1 =>
                     input_dict[p][first.name] = [shape |-> <<2>>, data |-> data]
                /\ Len(first.shape) = 2 =>
                     input_dict[p][first.name] = [shape |-> <<1, 2>>, data |-> data]

\* C5 as stated: for a model with n >= 1 declared inputs the binding passed to
\* session.run has exactly one entry, keyed by the first declared input name.
C5_OnlyFirstInputBound ==
    \A p \in Procs : \A c \in 1..Len(runLog[p]) :
        Len(session[p].inputs) >= 1 =>
            DOMAIN runLog[p][c].input_feed = {session[p].inputs[1].name}

\* C5 amended: for a model with n >= 1 declared inputs the binding passed to
\* session.run always has an entry for the first declared input name; in V2
\* that is its only entry, in APP and GUI it has one entry per declared input.
C5_BindingKeys ==
    \A p \in Procs : \A c \in 1..Len(runLog[p]) :
        Len(session[p].inputs) >= 1 =>
            LET keys == DOMAIN runLog[p][c].input_feed
                declared == {session[p].inputs[i].name : i \in 1..Len(session[p].inputs)}
            IN  /\ session[p].inputs[1].name \in keys
                /\ variant = "V2" => keys = {session[p].inputs[1].name}
                /\ variant \in {"APP", "GUI"} => keys = declared

\* a model with two declared inputs has been passed to session.run by APP
C5_Witness ==
    \E p \in Procs :
        variant = "APP" /\ Len(session[p].inputs) = 2 /\ Len(runLog[p]) = 1

\* C6: in the pages that label the outputs (APP, V2), a successful inference
\* whose flattened first output has k < 5 values renders a warning and exactly
\* those k values; no index >= k is ever read; the five labels go with
\* positions 0..4, in order, only when k >= 5.
C6_DisplayWithinBounds ==
    \A p \in Procs :
        variant \in {"APP", "V2"} /\ pc[p] \in {"finally", "done"}
          /\ result[p].status = "ok" /\ Len(result[p].outputs) >= 1 =>
            LET data == result[p].outputs[1].data
                k == Len(data)
            IN  /\ "display" \notin raised[p]
                /\ \A i \in ui[p].reads : i < k
                /\ k < 5 => /\ ui[p].kind = "warning"
                            /\ ui[p].values = data
                            /\ ui[p].lines = << >>
                /\ k >= 5 => /\ ui[p].kind = "labelled"
                             /\ ui[p].lines = << <<"Shear Rate", data[1]>>,
                                                 <<"Power", data[2]>>,
                                                 <<"Tip Speed", data[3]>>,
                                                 <<"Reynolds Number", data[4]>>,
                                                 <<"Power Number", data[5]>> >>

\* a successful inference with three output values has been rendered
C6_Witness ==
    \E p \in Procs :
        /\ variant \in {"APP", "V2"} /\ pc[p] = "done" /\ result[p].status = "ok"
        /\ Len(result[p].outputs) >= 1 /\ Len(result[p].outputs[1].data) = 3
        /\ ui[p].kind = "warning"

\* C7: a model that declares no input or no output is rejected: run_inference
\* returns a failure, and the display never indexes an empty output list.
C7_EmptySignatureRejected ==
    \A p \in Procs :
        session[p].loaded /\ Returned(p)
          /\ (Len(session[p].inputs) = 0 \/ Len(session[p].outputs) = 0) =>
            /\ result[p].status = "fail"
            /\ "display" \notin raised[p]

\* the locals of a cycle that has just been submitted
Fresh(p) ==
    /\ created'[p] = Unbound /\ model_path'[p] = Unbound
    /\ session'[p] = NoSession /\ sessionCalls'[p] = 0
    /\ input_dict'[p] = EmptyDict /\ runLog'[p] = << >> /\ outputs'[p] = << >>
    /\ exc'[p] = "none" /\ raised'[p] = {} /\ result'[p] = Pending

\* C8: in one submission the session is constructed at most once and
\* session.run is called at most once; once either has failed neither is
\* called again in that submission; the next submission starts from fresh locals.
C8_NoRetry ==
    [][\A p \in Procs :
          /\ sessionCalls'[p] <= 1 /\ Len(runLog'[p]) <= 1
          /\ cycle'[p] = cycle[p] /\ raised[p] \cap {"load", "run"} # {} =>
                sessionCalls'[p] = sessionCalls[p] /\ runLog'[p] = runLog[p]
          /\ cycle'[p] # cycle[p] => Fresh(p)]_vars

\* a submission has succeeded right after one whose session or run failed
C8_Witness ==
    \E p \in Procs :
        /\ cycle[p] = 2 /\ previous[p] = "fail"
        /\ pc[p] = "done" /\ result[p].status = "ok"
        /\ sessionCalls[p] = 1 /\ Len(runLog[p]) = 1

\* C9: session.run is asked for every declared output, in declaration order,
\* and the successful result pairs them positionally: its names element is the
\* list of the declared output name strings, as long as its outputs element.
C9_OutputNamesPaired ==
    \A p \in Procs :
        /\ \A c \in 1..Len(runLog[p]) :
              Requested(session[p], runLog[p][c].output_names) =
                  [j \in 1..Len(session[p].outputs) |->
                      [kind |-> "str", name |-> session[p].outputs[j].name]]
        /\ result[p].status = "ok" =>
              /\ result[p].names =
                    [j \in 1..Len(session[p].outputs) |->
                        [kind |-> "str", name |-> session[p].outputs[j].name]]
              /\ Len(result[p].names) = Len(result[p].outputs)

\* C10: two interleaved cycles load from different temporary files, no cleanup
\* removes the file the other cycle is loading from, and once both have
\* finished no temporary file of either remains.
C10_OwnTempFileOnly ==
    /\ ~removedOther
    /\ \A p \in Procs : \A q \in Procs \ {p} :
          pc[p] = "session" /\ pc[q] = "session" => model_path[p] # model_path[q]
    /\ (\A p \in Procs : pc[p] = "done") =>
          \A p \in Procs : created[p] # Unbound => created[p] \notin fs
====
